---- MODULE Spec2Model ----
(***************************************************************************)
(* State-machine model of src/main.py, the heart-disease report script.    *)
(* The script is one top-to-bottom run: it loads a CSV into the table      *)
(* `data`, prints counts, recodes the columns sex, target and fbs from     *)
(* integer codes to labels, and renders charts.  One action models one     *)
(* block of consecutive statements of the script.  Rendering calls         *)
(* of streamlit, seaborn, plotly and matplotlib read the table and are     *)
(* taken not to raise.                                                     *)
(***************************************************************************)
EXTENDS Integers, Sequences, FiniteSets, TLC

VARIABLES
    file,                   \* the dataset file: whether it exists, and its columns
    data,                   \* the module-level name `data` (unbound until read)
    plot_data,              \* the module-level name `plot_data`
    counts,                 \* the module-level name `counts`
    gender_counts,          \* the module-level name `gender_counts`
    gender_disease_counts,  \* the module-level name `gender_disease_counts`
    pc,                     \* the block of the script about to execute
    fault,                  \* the unhandled exception that ended the run, or "none"
    notices,                \* the st.error notices shown on the page
    out,                    \* the counts written to the page by st.write
    reads,                  \* history: number of pd.read_csv calls made
    trace,                  \* history: the blocks executed so far, in order
    changed                 \* history: per coded column, the number of blocks
                            \* that changed the column's values

vars == <<file, data, plot_data, counts, gender_counts, gender_disease_counts,
          pc, fault, notices, out, reads, trace, changed>>

----------------------------------------------------------------------------
(* Bounds of the model *)

\* largest number of rows of the dataset file
MaxRows == 3
\* largest number of cells of the file holding a code outside {0, 1}
MaxBad == 1
\* largest number of times the recoder harness applies one recoding step
MaxApply == 2

\* the codes outside {0, 1} that a cell of the file may hold
OutOfRange == {2}

----------------------------------------------------------------------------
(* Cell values.  A cell is an integer, a string or the missing-value       *)
(* marker NaN; all three are records of one shape.                         *)

Num(i) == [k |-> "int", i |-> i, s |-> ""]
Lbl(s) == [k |-> "str", i |-> 0, s |-> s]
NaN == [k |-> "nan", i |-> 0, s |-> ""]

\* the columns of the dataset that the script names
Columns == {"age", "sex", "cp", "trestbps", "chol", "fbs", "target"}
\* the columns the script recodes
CodeCols == {"sex", "fbs", "target"}

\* SexMap with the two labels exchanged
SexMapSwapped == (0 :> "Male") @@ (1 :> "Female")

\* the dictionaries of the recoding steps
SexMap == (0 :> "Female") @@ (1 :> "Male")
TargetMap == (0 :> "No Disease") @@ (1 :> "Disease")
FbsMap == (0 :> "<= 120 mg/dL") @@ (1 :> "> 120 mg/dL")

----------------------------------------------------------------------------
(* The dataset file *)

Cells(n) == CodeCols \X (1..n)

\* the value the file holds in row i of column c: the coded columns hold
\* code[<<c, i>>], the other columns hold fixed numbers
FileCell(code, c, i) ==
    IF c \in CodeCols THEN Num(code[<<c, i>>])
    ELSE IF c = "age" THEN Num(40 + 10 * i)
    ELSE IF c = "cp" THEN Num((i - 1) % 4)
    ELSE IF c = "trestbps" THEN Num(110 + 10 * i)
    ELSE Num(200 + i)

FileCols(n, code) == [c \in Columns |-> [i \in 1..n |-> FileCell(code, c, i)]]

\* the choices of at most MaxBad cells of an n-row file and of a code outside
\* {0, 1} for each
BadCodes(n) ==
    UNION { [B -> OutOfRange] :
              B \in { S \in SUBSET Cells(n) : Cardinality(S) <= MaxBad } }

NoCols == [c \in Columns |-> <<>>]

\* f is a dataset file: absent, or a file of at most MaxRows rows whose coded
\* columns hold codes 0 and 1, but for at most MaxBad cells that hold a code
\* outside {0, 1}
IsFile(f) ==
    \/ f = [exists |-> FALSE, cols |-> NoCols]
    \/ \E n \in 0..MaxRows :
         \E reg \in [Cells(n) -> {0, 1}], bad \in BadCodes(n) :
            f = [exists |-> TRUE,
                 cols |-> FileCols(n, [x \in Cells(n) |->
                             IF x \in DOMAIN bad THEN bad[x] ELSE reg[x]])]

----------------------------------------------------------------------------
(* pandas operations the script calls *)

Unbound == [bound |-> FALSE, cols |-> NoCols, dtype |-> [c \in Columns |-> "object"]]

\* read_csv with dtype=str: every cell is loaded as the text of its number
read_csv_str(f) ==
    [bound |-> TRUE,
     cols  |-> [c \in Columns |-> [i \in DOMAIN f.cols[c] |-> Lbl(ToString(f.cols[c][i].i))]],
     dtype |-> [c \in Columns |-> "object"]]

\* pd.read_csv: integer columns load as int64; a file with a header and no
\* rows loads every column as object
read_csv(f) ==
    [bound |-> TRUE,
     cols  |-> f.cols,
     dtype |-> [c \in Columns |-> IF Len(f.cols[c]) = 0 THEN "object" ELSE "int64"]]

\* Series.replace(dict) on one value: a value that is no key is kept
MapValueReplace(dict, v) ==
    IF v.k = "int" /\ v.i \in DOMAIN dict THEN Lbl(dict[v.i]) ELSE v

\* Series.map(dict) on one value: the label of a key of the dict, NaN for
\* every other value (a code that is no key, a string, NaN)
MapValue(dict, v) ==
    IF v.k = "int" /\ v.i \in DOMAIN dict THEN Lbl(dict[v.i]) ELSE NaN

\* Series.map(dict): value by value; the result holds strings and NaN, so its
\* dtype is object
MapSeries(dict, col) == [i \in DOMAIN col |-> MapValue(dict, col[i])]

\* data[c] = data[c].map(dict)
MapColumn(d, c, dict) ==
    [d EXCEPT !.cols[c] = MapSeries(dict, d.cols[c]), !.dtype[c] = "object"]

\* `dtype in [int, float, object]`: true of every column
IsNumericOrObject(dt) == dt \in {"int64", "float64", "object"}

\* `dtype in [int, float]`: true of int64 and float64 columns only (numpy
\* compares a dtype with int as with the platform's default integer, int64)
IsNumeric(dt) == dt \in {"int64", "float64"}

\* Series.value_counts(): the count of each value that occurs, NaN dropped
value_counts(col) ==
    [v \in {col[i] : i \in DOMAIN col} \ {NaN} |->
        Cardinality({i \in DOMAIN col : col[i] = v})]

\* `k in` the index of a value_counts() result; series[k] raises KeyError
\* when this is false (on the empty result of a table without rows the lookup
\* fails as well)
HasKey(vc, k) == Num(k) \in DOMAIN vc

\* the indices 1..n at which the boolean mask holds, in ascending order
RECURSIVE KeptRows(_, _)
KeptRows(mask, n) ==
    IF n = 0 THEN <<>>
    ELSE IF mask[n] THEN Append(KeptRows(mask, n - 1), n)
    ELSE KeptRows(mask, n - 1)

NRows(d) == Len(d.cols["sex"])

\* series[mask]: the values of the series at the rows where the mask holds
Masked(col, mask) ==
    LET idx == KeptRows(mask, Len(col)) IN [j \in 1..Len(idx) |-> col[idx[j]]]

\* data[['trestbps', 'sex']].dropna(): a new frame of the two columns, without
\* the rows that hold NaN in either
DropNA(d) ==
    LET mask == [i \in 1..NRows(d) |->
                    d.cols["trestbps"][i] # NaN /\ d.cols["sex"][i] # NaN]
    IN [trestbps |-> Masked(d.cols["trestbps"], mask),
        sex      |-> Masked(d.cols["sex"], mask)]

----------------------------------------------------------------------------
(* The recoding steps, as functions from table to table *)

\* lines 117-118
RecodeSexTargetStep(d) ==
    MapColumn(MapColumn(d, "sex", SexMap), "target", TargetMap)

\* lines 189-190
RecodeFbsStep(d) ==
    IF IsNumeric(d.dtype["fbs"]) THEN MapColumn(d, "fbs", FbsMap) ELSE d

\* lines 191-192
RecodeTargetGuardedStep(d) ==
    IF IsNumeric(d.dtype["target"]) THEN MapColumn(d, "target", TargetMap) ELSE d

\* lines 211-212
RecodeSexGuardedStep(d) ==
    IF IsNumeric(d.dtype["sex"]) THEN MapColumn(d, "sex", SexMap) ELSE d

----------------------------------------------------------------------------
(* Control *)

\* the blocks with the unconditional recoding moved before the count lookups
StepsRecodeFirst ==
    << "intro", "load", "reload", "recode_sex_target", "target_counts",
       "gender_counts", "gender_disease", "recode_fbs", "recode_target_guarded",
       "fbs_plot", "recode_sex_guarded", "plot_data", "closing" >>

\* the blocks of the script, in source order
Steps ==
    << "intro", "load", "reload", "target_counts", "gender_counts",
       "recode_sex_target", "gender_disease", "recode_fbs",
       "recode_target_guarded", "fbs_plot", "recode_sex_guarded", "plot_data",
       "closing" >>

Position(p) == CHOOSE i \in 1..Len(Steps) : Steps[i] = p

\* the block after block p; "done" after the last one
After(p) ==
    IF Position(p) = Len(Steps) THEN "done" ELSE Steps[Position(p) + 1]

At(p) == pc = p /\ fault = "none"

\* block p ran to its end
Goto(p) == pc' = After(p) /\ trace' = Append(trace, p) /\ fault' = fault

\* block p raised the exception e, which nothing catches: the run ends
Raise(p, e) == pc' = "crashed" /\ trace' = Append(trace, p) /\ fault' = e

\* the history of value changes, after the table went from d to nd (the
\* first binding of the table changes no column)
Bump(d, nd) ==
    [c \in CodeCols |->
        changed[c] + (IF d.bound /\ nd.cols[c] # d.cols[c] THEN 1 ELSE 0)]

Written(text, n) == [text |-> text, n |-> n]

Init ==
    /\ IsFile(file)
    /\ data = Unbound
    /\ plot_data = [trestbps |-> <<>>, sex |-> <<>>]
    /\ counts = <<>>
    /\ gender_counts = <<>>
    /\ gender_disease_counts = <<>>
    /\ pc = "intro"
    /\ fault = "none"
    /\ notices = <<>>
    /\ out = <<>>
    /\ reads = 0
    /\ trace = <<>>
    /\ changed = [c \in CodeCols |-> 0]

----------------------------------------------------------------------------
(* The blocks of the script *)

\* lines 10-42: titles, methodology, introduction
Intro ==
    /\ At("intro")
    /\ Goto("intro")
    /\ UNCHANGED <<file, data, plot_data, counts, gender_counts,
                   gender_disease_counts, notices, out, reads, changed>>

\* lines 47-65: the file exists; read it and show the preview and the info
LoadDataset ==
    /\ At("load")
    /\ file.exists
    /\ LET nd == read_csv(file) IN
        /\ data' = nd
        /\ changed' = Bump(data, nd)
        /\ out' = Append(out, Written("Rows", NRows(nd)))
    /\ reads' = reads + 1
    /\ Goto("load")
    /\ UNCHANGED <<file, plot_data, counts, gender_counts, gender_disease_counts,
                   notices>>

\* lines 47, 67-68: the file does not exist; show the error notice
FileNotFound ==
    /\ At("load")
    /\ ~file.exists
    /\ notices' = Append(notices, "CSV file not found. Please check the path.")
    /\ Goto("load")
    /\ UNCHANGED <<file, data, plot_data, counts, gender_counts,
                   gender_disease_counts, out, reads, changed>>

\* lines 71-76: the file exists; read it again and show the statistics
ReloadDescribe ==
    /\ At("reload")
    /\ file.exists
    /\ LET nd == read_csv(file) IN
        /\ data' = nd
        /\ changed' = Bump(data, nd)
    /\ reads' = reads + 1
    /\ Goto("reload")
    /\ UNCHANGED <<file, plot_data, counts, gender_counts, gender_disease_counts,
                   notices, out>>

\* line 71: the file does not exist; nothing is done
SkipReload ==
    /\ At("reload")
    /\ ~file.exists
    /\ Goto("reload")
    /\ UNCHANGED <<file, data, plot_data, counts, gender_counts,
                   gender_disease_counts, notices, out, reads, changed>>

\* lines 79-97: count the target values, write the counts of codes 0 and 1
\* and chart them
TargetCounts ==
    /\ At("target_counts")
    /\ IF ~data.bound
       THEN \* line 86: the name `data` was never assigned
            /\ Raise("target_counts", "NameError")
            /\ UNCHANGED <<counts, out>>
       ELSE LET vc == value_counts(data.cols["target"]) IN
            /\ counts' = vc
            /\ IF ~HasKey(vc, 0)
               THEN /\ Raise("target_counts", "KeyError")
                    /\ out' = out
               ELSE IF ~HasKey(vc, 1)
               THEN /\ Raise("target_counts", "KeyError")
                    /\ out' = Append(out, Written("People without heart disease", vc[Num(0)]))
               ELSE /\ Goto("target_counts")
                    /\ out' = out \o << Written("People without heart disease", vc[Num(0)]),
                                        Written("People with heart disease", vc[Num(1)]) >>
    /\ UNCHANGED <<file, data, plot_data, gender_counts, gender_disease_counts,
                   notices, reads, changed>>

\* lines 101-114: count the sex values, write the counts of codes 0 and 1 and
\* plot the sex column
GenderCounts ==
    /\ At("gender_counts")
    /\ LET vc == value_counts(data.cols["sex"]) IN
        /\ gender_counts' = vc
        /\ IF ~HasKey(vc, 0)
           THEN /\ Raise("gender_counts", "KeyError")
                /\ out' = out
           ELSE IF ~HasKey(vc, 1)
           THEN /\ Raise("gender_counts", "KeyError")
                /\ out' = Append(out, Written("Female", vc[Num(0)]))
           ELSE /\ Goto("gender_counts")
                /\ out' = out \o << Written("Female", vc[Num(0)]),
                                    Written("Male", vc[Num(1)]) >>
    /\ UNCHANGED <<file, data, plot_data, counts, gender_disease_counts,
                   notices, reads, changed>>

\* lines 117-118: map sex and target to labels, unconditionally
RecodeSexTarget ==
    /\ At("recode_sex_target")
    /\ LET nd == RecodeSexTargetStep(data) IN
        /\ data' = nd
        /\ changed' = Bump(data, nd)
    /\ Goto("recode_sex_target")
    /\ UNCHANGED <<file, plot_data, counts, gender_counts, gender_disease_counts,
                   notices, out, reads>>

\* lines 121-186: plot sex by target, count the sex values of the rows whose
\* target is 'Disease', plot the age and chest-pain distributions
GenderDisease ==
    /\ At("gender_disease")
    /\ LET mask == [i \in 1..NRows(data) |-> data.cols["target"][i] = Lbl("Disease")]
       IN gender_disease_counts' = value_counts(Masked(data.cols["sex"], mask))
    /\ Goto("gender_disease")
    /\ UNCHANGED <<file, data, plot_data, counts, gender_counts, notices, out,
                   reads, changed>>

\* lines 189-190: map fbs to labels if the column is numeric
RecodeFbs ==
    /\ At("recode_fbs")
    /\ LET nd == RecodeFbsStep(data) IN
        /\ data' = nd
        /\ changed' = Bump(data, nd)
    /\ Goto("recode_fbs")
    /\ UNCHANGED <<file, plot_data, counts, gender_counts, gender_disease_counts,
                   notices, out, reads>>

\* lines 191-192: map target to labels if the column is numeric
RecodeTargetGuarded ==
    /\ At("recode_target_guarded")
    /\ LET nd == RecodeTargetGuardedStep(data) IN
        /\ data' = nd
        /\ changed' = Bump(data, nd)
    /\ Goto("recode_target_guarded")
    /\ UNCHANGED <<file, plot_data, counts, gender_counts, gender_disease_counts,
                   notices, out, reads>>

\* lines 195-208: count plot of fbs by target
FbsPlot ==
    /\ At("fbs_plot")
    /\ Goto("fbs_plot")
    /\ UNCHANGED <<file, data, plot_data, counts, gender_counts,
                   gender_disease_counts, notices, out, reads, changed>>

\* lines 211-212: map sex to labels if the column is numeric
RecodeSexGuarded ==
    /\ At("recode_sex_guarded")
    /\ LET nd == RecodeSexGuardedStep(data) IN
        /\ data' = nd
        /\ changed' = Bump(data, nd)
    /\ Goto("recode_sex_guarded")
    /\ UNCHANGED <<file, plot_data, counts, gender_counts, gender_disease_counts,
                   notices, out, reads>>

\* data.dropna(subset=['trestbps', 'sex'], inplace=True): the rows are dropped
\* from the table itself
PlotDataInPlace ==
    /\ At("plot_data")
    /\ LET mask == [i \in 1..NRows(data) |->
                       data.cols["trestbps"][i] # NaN /\ data.cols["sex"][i] # NaN]
           nd == [data EXCEPT !.cols = [c \in Columns |-> Masked(data.cols[c], mask)]]
       IN /\ data' = nd
          /\ changed' = Bump(data, nd)
          /\ plot_data' = DropNA(data)
    /\ Goto("plot_data")
    /\ UNCHANGED <<file, counts, gender_counts, gender_disease_counts,
                   notices, out, reads>>

\* line 215: the rows of trestbps and sex without missing values, as a new frame
PlotData ==
    /\ At("plot_data")
    /\ plot_data' = DropNA(data)
    /\ Goto("plot_data")
    /\ UNCHANGED <<file, data, counts, gender_counts, gender_disease_counts,
                   notices, out, reads, changed>>

\* lines 218-268: density plot of plot_data, risk table, recommendations,
\* conclusion
Closing ==
    /\ At("closing")
    /\ Goto("closing")
    /\ UNCHANGED <<file, data, plot_data, counts, gender_counts,
                   gender_disease_counts, notices, out, reads, changed>>

Next ==
    \/ Intro
    \/ LoadDataset
    \/ FileNotFound
    \/ ReloadDescribe
    \/ SkipReload
    \/ TargetCounts
    \/ GenderCounts
    \/ RecodeSexTarget
    \/ GenderDisease
    \/ RecodeFbs
    \/ RecodeTargetGuarded
    \/ FbsPlot
    \/ RecodeSexGuarded
    \/ PlotData
    \/ Closing

Spec == Init /\ [][Next]_vars

----------------------------------------------------------------------------
(* The recoder harness: one recoding step of the script, applied again and *)
(* again to a freshly loaded table.  pc names the step and never changes;  *)
(* trace counts the applications.                                          *)

RecodeSteps ==
    {"recode_sex_target", "recode_fbs", "recode_target_guarded", "recode_sex_guarded"}

RecoderInit ==
    /\ IsFile(file)
    /\ file.exists
    /\ data = read_csv(file)
    /\ plot_data = [trestbps |-> <<>>, sex |-> <<>>]
    /\ counts = <<>>
    /\ gender_counts = <<>>
    /\ gender_disease_counts = <<>>
    /\ pc \in RecodeSteps
    /\ fault = "none"
    /\ notices = <<>>
    /\ out = <<>>
    /\ reads = 1
    /\ trace = <<>>
    /\ changed = [c \in CodeCols |-> 0]

Reapply(p, nd) ==
    /\ pc = p
    /\ Len(trace) < MaxApply
    /\ data' = nd
    /\ changed' = Bump(data, nd)
    /\ trace' = Append(trace, p)
    /\ UNCHANGED <<file, plot_data, counts, gender_counts, gender_disease_counts,
                   pc, fault, notices, out, reads>>

\* lines 117-118, once more
ReapplySexTarget == Reapply("recode_sex_target", RecodeSexTargetStep(data))

\* lines 189-190, once more
ReapplyFbs == Reapply("recode_fbs", RecodeFbsStep(data))

\* lines 191-192, once more
ReapplyTargetGuarded == Reapply("recode_target_guarded", RecodeTargetGuardedStep(data))

\* lines 211-212, once more
ReapplySexGuarded == Reapply("recode_sex_guarded", RecodeSexGuardedStep(data))

RecoderNext ==
    \/ ReapplySexTarget
    \/ ReapplyFbs
    \/ ReapplyTargetGuarded
    \/ ReapplySexGuarded

RecoderSpec == RecoderInit /\ [][RecoderNext]_vars

----------------------------------------------------------------------------
(* Vocabulary of the properties *)

\* block p has been entered
Executed(p) == \E i \in DOMAIN trace : trace[i] = p

\* block p has run to its end
Ran(p) == Executed(p) /\ (fault = "none" \/ trace[Len(trace)] # p)

IsPrefix(s, t) == Len(s) <= Len(t) /\ \A i \in 1..Len(s) : s[i] = t[i]

Count(col, v) == Cardinality({i \in DOMAIN col : col[i] = v})

Values(col) == {col[i] : i \in DOMAIN col}

\* the codes of column c in the file
FileCodes(c) == {file.cols[c][i].i : i \in DOMAIN file.cols[c]}

\* the distribution of the values of the coded columns, NaN included
Dist(d) == [c \in CodeCols |-> [v \in Values(d.cols[c]) |-> Count(d.cols[c], v)]]

Shown(text, n) == \E i \in DOMAIN out : out[i] = Written(text, n)

NoticeShown == \E i \in DOMAIN notices : notices[i] = "CSV file not found. Please check the path."

----------------------------------------------------------------------------
(* Properties *)

\* C1: when the dataset file does not exist, the run shows the 'CSV file not
\* found' notice once the load block has run, and no block of the run raises
\* an unhandled fault.
C1_MissingFileHandled ==
    ~file.exists =>
        /\ fault = "none"
        /\ (Ran("load") => NoticeShown)

\* C2: for a loaded table of n rows whose sex column is all zeros, once the
\* gender count block has been entered it has raised no fault and has written
\* Female = n and Male = 0.
C2_AllFemaleCounts ==
    (file.exists /\ FileCodes("sex") = {0} /\ Executed("gender_counts")) =>
        /\ fault = "none"
        /\ Shown("Female", NRows(data))
        /\ Shown("Male", 0)

\* C3: for every table whose sex and target columns hold only codes 0 and 1,
\* once lines 117-118 have run the sex column holds only "Female"/"Male" and
\* the target column only "No Disease"/"Disease", each label occurs as often
\* as its code did in the file, and the target label counts sum to the row
\* count.
C3_RecodeOnceCounts ==
    (Ran("recode_sex_target") /\ FileCodes("sex") \subseteq {0, 1}
                              /\ FileCodes("target") \subseteq {0, 1}) =>
        /\ Values(data.cols["sex"]) \subseteq {Lbl("Female"), Lbl("Male")}
        /\ Values(data.cols["target"]) \subseteq {Lbl("No Disease"), Lbl("Disease")}
        /\ Count(data.cols["sex"], Lbl("Female")) = Count(file.cols["sex"], Num(0))
        /\ Count(data.cols["sex"], Lbl("Male")) = Count(file.cols["sex"], Num(1))
        /\ Count(data.cols["target"], Lbl("No Disease")) = Count(file.cols["target"], Num(0))
        /\ Count(data.cols["target"], Lbl("Disease")) = Count(file.cols["target"], Num(1))
        /\ Count(data.cols["target"], Lbl("No Disease"))
             + Count(data.cols["target"], Lbl("Disease")) = NRows(data)

\* a table with codes 0 and 1 only has passed lines 117-118, and both labels
\* of both columns occur
C3_Witness ==
    /\ Ran("recode_sex_target")
    /\ FileCodes("sex") = {0, 1}
    /\ FileCodes("target") = {0, 1}
    /\ NRows(data) = MaxRows
    /\ Values(data.cols["sex"]) = {Lbl("Female"), Lbl("Male")}
    /\ Values(data.cols["target"]) = {Lbl("No Disease"), Lbl("Disease")}

\* C4: for every recoding step and every table with codes in {0, 1}, every
\* application of the step after the first leaves the distribution of the
\* values of sex, fbs and target as it was (so no label becomes NaN).
C4_RecodeIdempotent ==
    [][ (Len(trace) >= 1 /\ \A c \in CodeCols : FileCodes(c) \subseteq {0, 1})
            => Dist(data') = Dist(data) ]_vars

\* C5: for each of sex, fbs and target at most one block changes the column's
\* values, and after the column's first recoding it holds, to the end of the
\* run, the labels that recoding produced from the loaded codes.
C5_RecodedAtMostOnce ==
    /\ \A c \in CodeCols : changed[c] <= 1
    /\ Ran("recode_sex_target") =>
          /\ data.cols["sex"] = MapSeries(SexMap, file.cols["sex"])
          /\ data.cols["target"] = MapSeries(TargetMap, file.cols["target"])
    /\ Ran("recode_fbs") => data.cols["fbs"] = MapSeries(FbsMap, file.cols["fbs"])

\* the run is over, the guarded steps of target and sex were reached with the
\* columns already recoded, and each column was changed exactly once
C5_Witness ==
    /\ pc = "done"
    /\ Ran("recode_target_guarded")
    /\ Ran("recode_sex_guarded")
    /\ \A c \in CodeCols : changed[c] = 1

\* C6: once a column has been recoded, each cell whose code in the file is 0
\* or 1 holds the label of the code and each cell whose code is outside
\* {0, 1} holds NaN; from the first recoding on no fault is raised, no error
\* notice is shown, and the run has a next block to execute until it is over.
C6_OutOfRangeBecomesNaN ==
    LET Labelled(c, dict) ==
            \A i \in DOMAIN file.cols[c] :
                data.cols[c][i] = (IF file.cols[c][i].i \in {0, 1}
                                   THEN Lbl(dict[file.cols[c][i].i]) ELSE NaN)
    IN /\ Ran("recode_sex_target") =>
            /\ Labelled("sex", SexMap)
            /\ Labelled("target", TargetMap)
            /\ fault = "none"
            /\ notices = <<>>
            /\ (pc = "done" \/ ENABLED Next)
       /\ Ran("recode_fbs") => Labelled("fbs", FbsMap)

\* the run is over without a fault, and a code outside {0, 1} of the sex
\* column of the file has become NaN while the other rows have their labels
C6_Witness ==
    /\ pc = "done"
    /\ fault = "none"
    /\ FileCodes("sex") \ {0, 1} # {}
    /\ Values(data.cols["sex"]) = {NaN, Lbl("Female"), Lbl("Male")}

\* the columns of table d that the script does not recode are as in the file,
\* and d has the file's columns and rows
Framed(d) ==
    /\ DOMAIN d.cols = Columns
    /\ \A c \in Columns : Len(d.cols[c]) = Len(file.cols[c])
    /\ \A c \in Columns \ CodeCols :
          /\ d.cols[c] = file.cols[c]
          /\ d.dtype[c] = (IF Len(file.cols[c]) = 0 THEN "object" ELSE "int64")

\* C7: after every block the table has the loaded rows and columns and its
\* columns other than sex, fbs and target hold the loaded values; and only a
\* recoding block changes the table once it is loaded.
C7_Frame ==
    [][ /\ data'.bound => Framed(data')
        /\ (data.bound /\ data' # data) => pc \in RecodeSteps ]_vars

\* the run is over, plot_data has lost a row to dropna, and the table has not
C7_Witness ==
    /\ pc = "done"
    /\ Len(plot_data.sex) < NRows(data)
    /\ Framed(data)

\* C8: in any run the dataset file is read at most once.
C8_ReadAtMostOnce == reads <= 1

\* the file of a valid table: sex and target each hold both codes 0 and 1,
\* and fbs holds only codes 0 and 1
ValidFile ==
    /\ file.exists
    /\ {0, 1} \subseteq FileCodes("sex")
    /\ {0, 1} \subseteq FileCodes("target")
    /\ FileCodes("fbs") \subseteq {0, 1}

\* C9: a run on an existing file with a valid table raises no fault and
\* executes the blocks in source order, none skipped and none repeated: the
\* blocks executed so far are the first blocks of the script, the block about
\* to execute is the next one and can execute, and when the run is over every
\* block has executed exactly once.
C9_RunsOnceToTheEnd ==
    ValidFile =>
        /\ fault = "none"
        /\ IsPrefix(trace, Steps)
        /\ IF Len(trace) = Len(Steps)
           THEN pc = "done"
           ELSE pc = Steps[Len(trace) + 1] /\ ENABLED Next

\* a run on a valid table is over
C9_Witness ==
    /\ ValidFile
    /\ pc = "done"
    /\ Len(trace) = Len(Steps)
    /\ reads = 2

\* C10: when a block that reads a count by integer code is about to execute
\* (target at lines 86-93, sex at lines 102-104), no recoding block has run
\* and the column holds the loaded codes; when the block that compares target
\* with 'Disease' (line 130) is about to execute, target has been recoded.
C10_LookupsBeforeRecoding ==
    /\ (pc = "target_counts" /\ data.bound) =>
          /\ \A p \in RecodeSteps : ~Executed(p)
          /\ data.cols["target"] = file.cols["target"]
    /\ pc = "gender_counts" =>
          /\ \A p \in RecodeSteps : ~Executed(p)
          /\ data.cols["sex"] = file.cols["sex"]
    /\ pc = "gender_disease" =>
          /\ Ran("recode_sex_target")
          /\ data.dtype["target"] = "object"
          /\ data.cols["target"] = MapSeries(TargetMap, file.cols["target"])

\* the label comparison of line 130 is about to execute on a recoded table,
\* after both count lookups
C10_Witness ==
    /\ pc = "gender_disease"
    /\ Ran("target_counts")
    /\ Ran("gender_counts")
    /\ Lbl("Disease") \in Values(data.cols["target"])

====
